---- MODULE Spec2Model ----
(***************************************************************************)
(* Model of the microCMS -> Qiita synchroniser (sync-microcms-to-qiita.js). *)
(* One process run is: construct (validateConfig), fetch the article list, *)
(* load sync-history.json, decide and publish item by item, save, exit.    *)
(* The file sync-history.json and the CMS content outlive a run.           *)
(***************************************************************************)
EXTENDS Integers, Sequences, FiniteSets, TLC

\* ------------------------------------------------------------------ bounds
MaxItems == 2      \* most entries the CMS holds in the small specification
MaxRuns == 3       \* process runs in one behaviour
MaxFaults == 1     \* publish requests that may fail in one behaviour
MaxEdits == 1      \* edits of the CMS content between runs
LimitExtra == 1    \* entries beyond maxArticles in the long-list specification

\* ------------------------------------------------------- program constants
maxArticles == 50

VARIABLES
  env,         \* process.env: the set of variables that are set for this run
  cms,         \* the content microCMS holds (drafts included), a sequence
  file,        \* sync-history.json on disk
  pc,          \* position of the process
  articles,    \* syncArticles: const articles
  history,     \* syncArticles: const history (the in-memory store)
  idx,         \* position of the for-of loop in articles.slice(0, maxArticles)
  syncCount,   \* syncArticles: let syncCount
  errorCount,  \* syncArticles: let errorCount
  syncDecision,\* syncArticles: const syncDecision of the item being published
  exitCode,    \* exit status of the process, -1 while it runs
  runNo,       \* number of the current run; also the reading of the clock
  nextRemote,  \* Qiita: the id the next created item receives
  faultsLeft,  \* publish failures the environment may still inject
  editsLeft,   \* edits the CMS may still receive
  probe,       \* input and output of a direct call of one function
  pending,     \* test-sync.js: invocations of the stdin handler awaiting a response
  obs          \* observations of the current and earlier runs (history variable)

vars == <<env, cms, file, pc, articles, history, idx, syncCount, errorCount,
          syncDecision, exitCode, runNo, nextRemote, faultsLeft, editsLeft,
          probe, pending, obs>>

\* --------------------------------------------------------- JavaScript values
Undefined == "undefined"

\* a value is truthy unless it is undefined or the empty string
Truthy(v) == v # Undefined /\ v # ""

\* timestamps as the strings the CMS delivers; "t1z" is the instant of "t1"
\* written with another UTC offset, "bad" is not a date
ValidStamps == {"t1", "t1z", "t2"}
NaN == -1

\* new Date(s).valueOf()
DateValue(s) ==
  CASE s = "t1" -> 1
    [] s = "t1z" -> 1
    [] s = "t2" -> 2
    [] OTHER -> NaN

\* new Date(a) > new Date(b): false as soon as one side is an invalid date
DateGreater(a, b) ==
  /\ DateValue(a) # NaN
  /\ DateValue(b) # NaN
  /\ DateValue(a) > DateValue(b)

\* obj[key] of an object that may lack the key
Prop(obj, key) == IF key \in DOMAIN obj THEN obj[key] ELSE Undefined

\* article.updatedAt || article.revisedAt || article.publishedAt
EffectiveTimestamp(article) ==
  IF Truthy(article.updatedAt) THEN article.updatedAt
  ELSE IF Truthy(article.revisedAt) THEN article.revisedAt
  ELSE article.publishedAt

Min(a, b) == IF a < b THEN a ELSE b

\* ------------------------------------------------------------ configuration
RequiredEnv == {"MICROCMS_DOMAIN", "MICROCMS_API_KEY", "QIITA_ACCESS_TOKEN"}

\* validateConfig: the required variables that are not set
validateConfig(e) == RequiredEnv \ e

\* ------------------------------------------------------------ persistence
EmptyStore == [lastSyncTime |-> <<>>, articles |-> <<>>]

AbsentFile == [kind |-> "absent"]
CorruptFile == [kind |-> "corrupt"]

\* JSON.stringify of one record: a property whose value is undefined is dropped
StringifyRecord(rec) ==
  IF rec.microCMSUpdatedAt = Undefined
  THEN [k \in DOMAIN rec \ {"microCMSUpdatedAt"} |-> rec[k]]
  ELSE rec

\* JSON.stringify(history, null, 2)
JSONStringify(h) ==
  [lastSyncTime |-> h.lastSyncTime,
   articles |-> [id \in DOMAIN h.articles |-> StringifyRecord(h.articles[id])]]

\* JSON.parse of a text JSON.stringify produced
JSONParse(text) == text

\* mutant: a missing or unparsable file gives an object without articles
loadSyncHistory_EmptyObject(f) ==
  IF f.kind = "json" THEN JSONParse(f.data) ELSE [lastSyncTime |-> <<>>]

\* mutant: the persisted file is ignored
loadSyncHistory_Fresh(f) == EmptyStore

\* loadSyncHistory: a missing or unparsable file gives the default store
loadSyncHistory(f) ==
  IF f.kind = "json" THEN JSONParse(f.data) ELSE EmptyStore

\* saveSyncHistory: the file after the call; a write that throws is caught
\* and logged, and leaves the file as it was
saveSyncHistory(h, f, written) ==
  IF written THEN [kind |-> "json", data |-> JSONStringify(h)] ELSE f

\* ------------------------------------------------------------ the decision
\* mutant: an item without any timestamp is not created
shouldSyncArticle_NoStampSkip(article, h) ==
  IF article.id \notin DOMAIN h.articles
  THEN IF Truthy(EffectiveTimestamp(article))
       THEN [shouldSync |-> TRUE, action |-> "create"]
       ELSE [shouldSync |-> FALSE, action |-> "skip"]
  ELSE LET articleHistory == h.articles[article.id]
           microCMSUpdatedAt == EffectiveTimestamp(article)
           lastSyncedUpdatedAt == Prop(articleHistory, "microCMSUpdatedAt")
       IN IF /\ Truthy(microCMSUpdatedAt)
             /\ Truthy(lastSyncedUpdatedAt)
             /\ DateGreater(microCMSUpdatedAt, lastSyncedUpdatedAt)
          THEN [shouldSync |-> TRUE, action |-> "update",
                qiitaId |-> articleHistory.qiitaId]
          ELSE [shouldSync |-> FALSE, action |-> "skip"]

\* mutant: >= in place of >, an unchanged item is updated again
shouldSyncArticle_NotEarlier(article, h) ==
  IF article.id \notin DOMAIN h.articles
  THEN [shouldSync |-> TRUE, action |-> "create"]
  ELSE LET articleHistory == h.articles[article.id]
           microCMSUpdatedAt == EffectiveTimestamp(article)
           lastSyncedUpdatedAt == Prop(articleHistory, "microCMSUpdatedAt")
       IN IF /\ Truthy(microCMSUpdatedAt)
             /\ Truthy(lastSyncedUpdatedAt)
             /\ DateValue(microCMSUpdatedAt) # NaN
             /\ DateValue(lastSyncedUpdatedAt) # NaN
             /\ DateValue(microCMSUpdatedAt) >= DateValue(lastSyncedUpdatedAt)
          THEN [shouldSync |-> TRUE, action |-> "update",
                qiitaId |-> articleHistory.qiitaId]
          ELSE [shouldSync |-> FALSE, action |-> "skip"]

shouldSyncArticle(article, h) ==
  IF article.id \notin DOMAIN h.articles
  THEN [shouldSync |-> TRUE, action |-> "create"]
  ELSE LET articleHistory == h.articles[article.id]
           microCMSUpdatedAt == EffectiveTimestamp(article)
           lastSyncedUpdatedAt == Prop(articleHistory, "microCMSUpdatedAt")
       IN IF /\ Truthy(microCMSUpdatedAt)
             /\ Truthy(lastSyncedUpdatedAt)
             /\ DateGreater(microCMSUpdatedAt, lastSyncedUpdatedAt)
          THEN [shouldSync |-> TRUE, action |-> "update",
                qiitaId |-> articleHistory.qiitaId]
          ELSE [shouldSync |-> FALSE, action |-> "skip"]

\* the record syncArticles writes after a successful publish
SyncRecord(article, qiitaId, now) ==
  [qiitaId |-> qiitaId,
   title |-> article.title,
   lastSyncedAt |-> now,
   microCMSUpdatedAt |-> EffectiveTimestamp(article)]

\* mutant: the store is replaced by one holding only the new record
PutRecord_Replace(h, id, rec) ==
  [h EXCEPT !.articles = [k \in {id} |-> rec]]

\* history.articles[id] = rec
PutRecord(h, id, rec) ==
  [h EXCEPT !.articles =
     [k \in DOMAIN h.articles \cup {id} |-> IF k = id THEN rec ELSE h.articles[k]]]

\* getMicroCMSArticles: only published entries are returned
IsPublished(article) ==
  Truthy(article.publishedAt) /\ article.publishedAt # "draft"

publishedArticles(contents) == SelectSeq(contents, IsPublished)

\* mutant: the last maxArticles entries are taken (slice(-maxArticles))
Batch_Last(as) ==
  SubSeq(as, IF Len(as) > maxArticles THEN Len(as) - maxArticles + 1 ELSE 1,
         Len(as))

\* mutant: the whole list is processed
Batch_All(as) == as

\* articles.slice(0, maxArticles)
Batch(as) == SubSeq(as, 1, Min(Len(as), maxArticles))

\* ------------------------------------------------------------ observations
\* what is recorded about one run: calls of loadSyncHistory and of
\* saveSyncHistory, publish requests issued, decisions taken, the effective
\* timestamp of every item published with success, the decision of every item,
\* the items whose publish failed, how the run ended; and across runs the
\* failures of the preceding run, every publish request ever issued, and
\* whether some save did not write the file; and whether a pause has
\* completed since the last successful publish of the run
NoObs ==
  [loads |-> 0, saveCalls |-> 0, requests |-> 0, decisions |-> 0,
   okRun |-> <<>>, decided |-> <<>>, failedNow |-> <<>>,
   kind |-> "running", written |-> FALSE, fileAtStart |-> AbsentFile,
   prevFailed |-> <<>>, pubLog |-> {}, unsaved |-> FALSE, paused |-> FALSE]

Extend(f, k, v) == [x \in DOMAIN f \cup {k} |-> IF x = k THEN v ELSE f[x]]

NoDecision == [shouldSync |-> FALSE, action |-> "none"]

NoProbe == [called |-> FALSE]

\* the item the loop is at
Current == Batch(articles)[idx]

\* ------------------------------------------------------------------ actions

\* new MicroCMSQiitaSync(): the constructor reads process.env and validates it;
\* a missing variable throws out of the script and node exits with status 1
Construct ==
  /\ pc = "start"
  /\ \E e \in SUBSET RequiredEnv :
       /\ env' = e
       /\ IF validateConfig(e) = {}
          THEN /\ pc' = "fetch"
               /\ UNCHANGED <<exitCode, obs>>
          ELSE /\ pc' = "exited"
               /\ exitCode' = 1
               /\ obs' = [obs EXCEPT !.kind = "fatal"]
  /\ UNCHANGED <<cms, file, articles, history, idx, syncCount, errorCount,
                 syncDecision, runNo, nextRemote, faultsLeft, editsLeft,
                 probe, pending>>

\* syncArticles: getMicroCMSArticles resolves, loadSyncHistory, the counters
GetArticlesOk ==
  /\ pc = "fetch"
  /\ articles' = publishedArticles(cms)
  /\ history' = loadSyncHistory(file)
  /\ syncCount' = 0
  /\ errorCount' = 0
  /\ idx' = 1
  /\ pc' = "loop"
  /\ obs' = [obs EXCEPT !.loads = @ + 1]
  /\ UNCHANGED <<env, cms, file, syncDecision, exitCode, runNo, nextRemote,
                 faultsLeft, editsLeft, probe, pending>>

\* mutant: the store is saved before the early exit
GetArticlesFail_Saves ==
  /\ pc = "fetch"
  /\ pc' = "exited"
  /\ exitCode' = 1
  /\ file' = saveSyncHistory(history, file, TRUE)
  /\ obs' = [obs EXCEPT !.kind = "fatal"]
  /\ UNCHANGED <<env, cms, articles, history, idx, syncCount, errorCount,
                 syncDecision, runNo, nextRemote, faultsLeft, editsLeft,
                 probe, pending>>

\* syncArticles: getMicroCMSArticles rejects, the outer catch exits with 1
GetArticlesFail ==
  /\ pc = "fetch"
  /\ pc' = "exited"
  /\ exitCode' = 1
  /\ obs' = [obs EXCEPT !.kind = "fatal"]
  /\ UNCHANGED <<env, cms, file, articles, history, idx, syncCount, errorCount,
                 syncDecision, runNo, nextRemote, faultsLeft, editsLeft,
                 probe, pending>>

\* one iteration of the loop up to the publish request (or the continue)
Decide ==
  /\ pc = "loop"
  /\ idx <= Len(Batch(articles))
  /\ LET article == Current
         d == shouldSyncArticle(article, history)
     IN IF ~d.shouldSync
        THEN /\ idx' = idx + 1
             /\ obs' = [obs EXCEPT !.decisions = @ + 1,
                                   !.decided = Extend(@, article.id, d.action)]
             /\ UNCHANGED <<pc, syncDecision>>
        ELSE /\ pc' = "publishing"
             /\ syncDecision' = d
             /\ obs' = [obs EXCEPT
                          !.decisions = @ + 1,
                          !.decided = Extend(@, article.id, d.action),
                          !.requests = @ + 1,
                          !.pubLog = @ \cup {[run |-> runNo, id |-> article.id,
                                     ts |-> EffectiveTimestamp(article)]}]
             /\ UNCHANGED idx
  /\ UNCHANGED <<env, cms, file, articles, history, syncCount, errorCount,
                 exitCode, runNo, nextRemote, faultsLeft, editsLeft,
                 probe, pending>>

\* mutant: the store is written to disk after every successful publish
PublishOk_Flush ==
  /\ pc = "publishing"
  /\ LET article == Current
         qiitaId == IF syncDecision.action = "create"
                    THEN nextRemote ELSE syncDecision.qiitaId
     IN /\ history' = PutRecord(history, article.id,
                                SyncRecord(article, qiitaId, runNo))
        /\ nextRemote' = IF syncDecision.action = "create"
                         THEN nextRemote + 1 ELSE nextRemote
        /\ obs' = [obs EXCEPT !.okRun =
                     Extend(@, article.id, EffectiveTimestamp(article)),
                              !.paused = FALSE]
  /\ file' = saveSyncHistory(history', file, TRUE)
  /\ syncCount' = syncCount + 1
  /\ IF syncCount' < Len(articles)
     THEN pc' = "sleeping" /\ UNCHANGED idx
     ELSE pc' = "loop" /\ idx' = idx + 1
  /\ syncDecision' = NoDecision
  /\ UNCHANGED <<env, cms, articles, errorCount, exitCode, runNo,
                 faultsLeft, editsLeft, probe, pending>>

\* mutant: no pause after a successful publish
PublishOk_NoPause ==
  /\ pc = "publishing"
  /\ LET article == Current
         qiitaId == IF syncDecision.action = "create"
                    THEN nextRemote ELSE syncDecision.qiitaId
     IN /\ history' = PutRecord(history, article.id,
                                SyncRecord(article, qiitaId, runNo))
        /\ nextRemote' = IF syncDecision.action = "create"
                         THEN nextRemote + 1 ELSE nextRemote
        /\ obs' = [obs EXCEPT !.okRun =
                     Extend(@, article.id, EffectiveTimestamp(article)),
                              !.paused = FALSE]
  /\ syncCount' = syncCount + 1
  /\ pc' = "loop"
  /\ idx' = idx + 1
  /\ syncDecision' = NoDecision
  /\ UNCHANGED <<env, cms, file, articles, errorCount, exitCode, runNo,
                 faultsLeft, editsLeft, probe, pending>>

\* the publish request succeeds: the record is written, syncCount++, and the
\* pause starts unless syncCount has reached articles.length
PublishOk ==
  /\ pc = "publishing"
  /\ LET article == Current
         qiitaId == IF syncDecision.action = "create"
                    THEN nextRemote ELSE syncDecision.qiitaId
     IN /\ history' = PutRecord(history, article.id,
                                SyncRecord(article, qiitaId, runNo))
        /\ nextRemote' = IF syncDecision.action = "create"
                         THEN nextRemote + 1 ELSE nextRemote
        /\ obs' = [obs EXCEPT !.okRun =
                     Extend(@, article.id, EffectiveTimestamp(article)),
                              !.paused = FALSE]
  /\ syncCount' = syncCount + 1
  /\ IF syncCount' < Len(articles)
     THEN pc' = "sleeping" /\ UNCHANGED idx
     ELSE pc' = "loop" /\ idx' = idx + 1
  /\ syncDecision' = NoDecision
  /\ UNCHANGED <<env, cms, file, articles, errorCount, exitCode, runNo,
                 faultsLeft, editsLeft, probe, pending>>

\* mutant: a failed publish ends the loop (break in place of continue)
PublishFail_Abort ==
  /\ pc = "publishing"
  /\ faultsLeft > 0
  /\ faultsLeft' = faultsLeft - 1
  /\ errorCount' = errorCount + 1
  /\ idx' = Len(Batch(articles)) + 1
  /\ pc' = "loop"
  /\ obs' = [obs EXCEPT !.failedNow =
               Extend(@, Current.id, [action |-> syncDecision.action,
                                      article |-> Current])]
  /\ syncDecision' = NoDecision
  /\ UNCHANGED <<env, cms, file, articles, history, syncCount, exitCode, runNo,
                 nextRemote, editsLeft, probe, pending>>

\* the publish request fails: the inner catch counts the error and continues
PublishFail ==
  /\ pc = "publishing"
  /\ faultsLeft > 0
  /\ faultsLeft' = faultsLeft - 1
  /\ errorCount' = errorCount + 1
  /\ idx' = idx + 1
  /\ pc' = "loop"
  /\ obs' = [obs EXCEPT !.failedNow =
               Extend(@, Current.id, [action |-> syncDecision.action,
                                      article |-> Current])]
  /\ syncDecision' = NoDecision
  /\ UNCHANGED <<env, cms, file, articles, history, syncCount, exitCode, runNo,
                 nextRemote, editsLeft, probe, pending>>

\* sleep(2000) resolves
SleepDone ==
  /\ pc = "sleeping"
  /\ pc' = "loop"
  /\ idx' = idx + 1
  /\ obs' = [obs EXCEPT !.paused = TRUE]
  /\ UNCHANGED <<env, cms, file, articles, history, syncCount, errorCount,
                 syncDecision, exitCode, runNo, nextRemote, faultsLeft,
                 editsLeft, probe, pending>>

\* after the loop: lastSyncTime, saveSyncHistory, the summary and the exit
FinishRun(written) ==
  /\ pc = "loop"
  /\ idx > Len(Batch(articles))
  /\ history' = [history EXCEPT !.lastSyncTime = <<runNo>>]
  /\ file' = saveSyncHistory(history', file, written)
  /\ exitCode' = IF errorCount > 0 THEN 1 ELSE 0
  /\ pc' = "exited"
  /\ obs' = [obs EXCEPT !.saveCalls = @ + 1, !.kind = "completed",
                        !.written = written,
                        !.unsaved = @ \/ ~written]
  /\ UNCHANGED <<env, cms, articles, idx, syncCount, errorCount, syncDecision,
                 runNo, nextRemote, faultsLeft, editsLeft, probe, pending>>

FinishSaved == FinishRun(TRUE)

FinishSaveFailed == FinishRun(FALSE)

\* the scheduler starts the script again (runs do not overlap)
NextRun ==
  /\ pc = "exited"
  /\ runNo < MaxRuns
  /\ runNo' = runNo + 1
  /\ pc' = "start"
  /\ exitCode' = -1
  /\ env' = {}
  /\ articles' = <<>>
  /\ history' = EmptyStore
  /\ idx' = 0
  /\ syncCount' = 0
  /\ errorCount' = 0
  /\ obs' = [NoObs EXCEPT !.prevFailed = obs.failedNow,
                          !.pubLog = obs.pubLog,
                          !.unsaved = obs.unsaved,
                          !.fileAtStart = file]
  /\ UNCHANGED <<cms, file, syncDecision, nextRemote, faultsLeft, editsLeft,
                 probe, pending>>

\* an author edits an entry of the CMS between two runs
Edit ==
  /\ pc = "exited"
  /\ runNo < MaxRuns
  /\ editsLeft > 0
  /\ editsLeft' = editsLeft - 1
  /\ \E i \in 1..Len(cms), v \in {"t1z", "t2"} :
       /\ cms[i].updatedAt # v
       /\ cms' = [cms EXCEPT ![i].updatedAt = v]
  /\ UNCHANGED <<env, file, pc, articles, history, idx, syncCount, errorCount,
                 syncDecision, exitCode, runNo, nextRemote, faultsLeft,
                 probe, pending, obs>>

\* -------------------------------------------------------------- behaviours
CmsEntry(i, published) ==
  [id |-> i, title |-> i, publishedAt |-> published,
   revisedAt |-> Undefined, updatedAt |-> Undefined]

InitRun(contents, f) ==
  /\ env = {}
  /\ cms = contents
  /\ file = f
  /\ pc = "start"
  /\ articles = <<>>
  /\ history = EmptyStore
  /\ idx = 0
  /\ syncCount = 0
  /\ errorCount = 0
  /\ syncDecision = NoDecision
  /\ exitCode = -1
  /\ runNo = 1
  /\ nextRemote = 1
  /\ editsLeft = MaxEdits
  /\ probe = NoProbe
  /\ pending = 0
  /\ obs = [NoObs EXCEPT !.fileAtStart = f]

Init ==
  /\ faultsLeft = MaxFaults
  /\ \E n \in 0..MaxItems :
       \E pub \in [1..n -> {Undefined, "t1"}] :
         \E f \in {AbsentFile, CorruptFile} :
           InitRun([i \in 1..n |-> CmsEntry(i, pub[i])], f)

Next ==
  \/ Construct
  \/ GetArticlesOk
  \/ GetArticlesFail
  \/ Decide
  \/ PublishOk
  \/ PublishFail
  \/ SleepDone
  \/ FinishSaved
  \/ FinishSaveFailed
  \/ NextRun
  \/ Edit

Spec == Init /\ [][Next]_vars

\* the long-list behaviours: a CMS holding about maxArticles published entries
InitLimit ==
  /\ faultsLeft = 1
  /\ \E n \in (maxArticles - 1)..(maxArticles + LimitExtra) :
       InitRun([i \in 1..n |-> CmsEntry(i, "t1")], AbsentFile)

NextLimit ==
  \/ Construct
  \/ GetArticlesOk
  \/ GetArticlesFail
  \/ Decide
  \/ PublishOk
  \/ PublishFail
  \/ SleepDone
  \/ FinishSaved
  \/ FinishSaveFailed
  \/ NextRun

SpecLimit == InitLimit /\ [][NextLimit]_vars

\* direct calls of shouldSyncArticle with any timestamps and any stored record
ProbeStamps == ValidStamps \cup {Undefined, "", "bad"}

ProbeArticles ==
  [id : {1}, title : {1}, publishedAt : ProbeStamps, revisedAt : ProbeStamps,
   updatedAt : ProbeStamps]

ProbeRecords ==
  [qiitaId : {7}, title : {1}, lastSyncedAt : {1},
   microCMSUpdatedAt : ProbeStamps \ {Undefined}]
    \cup [qiitaId : {7}, title : {1}, lastSyncedAt : {1}]

ProbeStores ==
  {EmptyStore}
    \cup {[lastSyncTime |-> <<1>>, articles |-> [k \in {i} |-> r]] :
            i \in {1, 2}, r \in ProbeRecords}

InitDecide ==
  /\ faultsLeft = 0
  /\ env = {}
  /\ cms = <<>>
  /\ file = AbsentFile
  /\ pc = "probe"
  /\ articles = <<>>
  /\ history = EmptyStore
  /\ idx = 0
  /\ syncCount = 0
  /\ errorCount = 0
  /\ syncDecision = NoDecision
  /\ exitCode = -1
  /\ runNo = 1
  /\ nextRemote = 1
  /\ editsLeft = 0
  /\ obs = NoObs
  /\ pending = 0
  /\ \E a \in ProbeArticles, h \in ProbeStores :
       probe = [called |-> FALSE, article |-> a, history |-> h]

\* const syncDecision = this.shouldSyncArticle(article, history)
CallShouldSync ==
  /\ pc = "probe"
  /\ ~probe.called
  /\ probe' = [called |-> TRUE, article |-> probe.article,
               history |-> probe.history,
               result |-> shouldSyncArticle(probe.article, probe.history)]
  /\ UNCHANGED <<env, cms, file, pc, articles, history, idx, syncCount,
                 errorCount, syncDecision, exitCode, runNo, nextRemote,
                 faultsLeft, editsLeft, obs, pending>>

SpecDecide == InitDecide /\ [][CallShouldSync]_vars

\* the state around a direct call of a function: no run is under way
InitProbe(p) ==
  /\ faultsLeft = 0
  /\ env = {}
  /\ cms = <<>>
  /\ file = AbsentFile
  /\ pc = "probe"
  /\ articles = <<>>
  /\ history = EmptyStore
  /\ idx = 0
  /\ syncCount = 0
  /\ errorCount = 0
  /\ syncDecision = NoDecision
  /\ exitCode = -1
  /\ runNo = 1
  /\ nextRemote = 1
  /\ editsLeft = 0
  /\ obs = NoObs
  /\ probe = p
  /\ pending = 0

\* direct calls of loadSyncHistory and saveSyncHistory: the stores a run can
\* hold (records written by syncArticles) and the files it can find
StoreRecords(id) ==
  {SyncRecord([title |-> id, updatedAt |-> u, revisedAt |-> Undefined,
               publishedAt |-> "t1"], q, 1) :
     u \in {Undefined, "t1z", "t2"}, q \in {id}}

ProbeSavedStores ==
  UNION {[lastSyncTime : {<<>>, <<1>>}, articles : [D -> UNION {StoreRecords(i) : i \in D}]] :
           D \in SUBSET (1..MaxItems)}

ProbeFiles ==
  {AbsentFile, CorruptFile}
    \cup {saveSyncHistory(h, AbsentFile, TRUE) :
            h \in {x \in ProbeSavedStores : x.lastSyncTime = <<1>>}}

InitStore ==
  \E f \in ProbeFiles, h \in ProbeSavedStores, w \in BOOLEAN :
    InitProbe([called |-> FALSE, op |-> "store", file |-> f, store |-> h,
               written |-> w])

\* const before = loadSyncHistory(); saveSyncHistory(store); loadSyncHistory()
CallSaveLoad ==
  /\ pc = "probe"
  /\ ~probe.called
  /\ probe.op = "store"
  /\ LET fileAfter == saveSyncHistory(probe.store, probe.file, probe.written)
     IN probe' = [called |-> TRUE, op |-> "store", file |-> probe.file,
                  store |-> probe.store, written |-> probe.written,
                  before |-> loadSyncHistory(probe.file),
                  fileAfter |-> fileAfter,
                  after |-> loadSyncHistory(fileAfter)]
  /\ UNCHANGED <<env, cms, file, pc, articles, history, idx, syncCount,
                 errorCount, syncDecision, exitCode, runNo, nextRemote,
                 faultsLeft, editsLeft, obs, pending>>

SpecStore == InitStore /\ [][CallSaveLoad]_vars

\* ---------------------------------------------------------------------------
\* HtmlToMarkdownConverter.processTags (html-to-markdown.js)
\*
\* A tag string is its trimmed text (core) with the white space around it:
\* lead and trail count the blanks before and after the core.  A value that
\* is not a string (a number in a name field) has str = FALSE.
MaxCats == 2
MaxSegs == 2
maxTagLength == 20
defaultMaxTags == 5

Str(core, lead, trail) == [core |-> core, lead |-> lead, trail |-> trail, str |-> TRUE]

CoreLen(core) ==
  CASE core = "" -> 0
    [] core = "A" -> 1
    [] core = "B" -> 1
    [] core = "AI" -> 2
    [] core = "W20" -> 20
    [] core = "W21" -> 21
    [] OTHER -> 1

\* s.length
Length(s) == s.lead + CoreLen(s.core) + s.trail

\* s.trim()
Trim(s) == Str(s.core, 0, 0)

\* JavaScript truthiness of a tag value: a string is truthy unless it is ''
TagTruthy(v) == IF v.str THEN Length(v) > 0 ELSE TRUE

DefaultTag == Str("AI", 0, 0)

\* one category value: a string, an object with name and/or title, or null
CategoryTag(category) ==
  CASE category.kind = "string" ->
         IF TagTruthy(category.value) THEN <<category.value>> ELSE <<>>
    [] category.kind = "object" ->
         IF "name" \in DOMAIN category.fields /\ TagTruthy(category.fields["name"])
           THEN <<category.fields["name"]>>
         ELSE IF "title" \in DOMAIN category.fields /\ TagTruthy(category.fields["title"])
           THEN <<category.fields["title"]>>
         ELSE <<>>
    [] OTHER -> <<>>

RECURSIVE FlattenItems(_)
FlattenItems(items) ==
  IF items = <<>> THEN <<>>
  ELSE CategoryTag(Head(items)) \o FlattenItems(Tail(items))

\* the categories argument: missing (default []), an array, or a single value
FlattenCategories(categories) ==
  CASE categories.kind = "undefined" -> <<>>
    [] categories.kind = "array" -> FlattenItems(categories.items)
    [] OTHER -> CategoryTag(categories)

\* tags.split(',').map(tag => tag.trim()).filter(tag => tag.length > 0); the
\* string is held as its comma-separated segments
RECURSIVE TrimSegments(_)
TrimSegments(segs) ==
  IF segs = <<>> THEN <<>>
  ELSE (IF Length(Trim(Head(segs))) > 0 THEN <<Trim(Head(segs))>> ELSE <<>>)
         \o TrimSegments(Tail(segs))

RECURSIVE TextLength(_)
TextLength(segs) ==
  IF segs = <<>> THEN 0
  ELSE Length(Head(segs)) + (IF Len(segs) > 1 THEN 1 ELSE 0) + TextLength(Tail(segs))

SplitTags(tags) ==
  IF tags.kind = "string" /\ TextLength(tags.segs) > 0
    THEN TrimSegments(tags.segs)
    ELSE <<>>

AllTags(categories, tags) == FlattenCategories(categories) \o SplitTags(tags)

Range(seq) == {seq[i] : i \in DOMAIN seq}

\* [...new Set(allTags)]: the values in order of first insertion, compared as
\* they are (before any trim)
RECURSIVE UniqueValues(_)
UniqueValues(seq) ==
  IF seq = <<>> THEN <<>>
  ELSE LET front == UniqueValues(SubSeq(seq, 1, Len(seq) - 1))
           last == seq[Len(seq)]
       IN IF last \in Range(front) THEN front ELSE Append(front, last)

ValidTag_NoLimit(tag) ==
  /\ TagTruthy(tag)
  /\ tag.str
  /\ Length(Trim(tag)) > 0

ValidTag(tag) ==
  /\ TagTruthy(tag)
  /\ tag.str
  /\ Length(Trim(tag)) > 0
  /\ Length(Trim(tag)) <= maxTagLength

RECURSIVE FilterValid(_)
FilterValid(seq) ==
  IF seq = <<>> THEN <<>>
  ELSE (IF ValidTag(Head(seq)) THEN <<Head(seq)>> ELSE <<>>) \o FilterValid(Tail(seq))

RECURSIVE QiitaTags(_)
QiitaTags(seq) ==
  IF seq = <<>> THEN <<>>
  ELSE <<[name |-> Trim(Head(seq))]>> \o QiitaTags(Tail(seq))

processTags(categories, tags, maxTags) ==
  LET filtered == FilterValid(UniqueValues(AllTags(categories, tags)))
      uniqueTags == SubSeq(filtered, 1, Min(Len(filtered), maxTags))
  IN QiitaTags(IF Len(uniqueTags) = 0 THEN <<DefaultTag>> ELSE uniqueTags)

\* direct calls of processTags
ProbeCategoryStrings ==
  {Str("A", 0, 0), Str("A", 0, 1), Str("B", 0, 0), Str("W21", 0, 0), Str("", 1, 0),
   Str("", 0, 0)}

ProbeCategoryObjects ==
  {[kind |-> "object", fields |-> [k \in {"name"} |-> Str("A", 0, 0)]],
   [kind |-> "object", fields |-> [k \in {"title"} |-> Str("B", 1, 0)]],
   [kind |-> "object",
    fields |-> [k \in {"name", "title"} |->
                  IF k = "name" THEN Str("", 0, 0) ELSE Str("W20", 0, 0)]],
   [kind |-> "object",
    fields |-> [k \in {"name"} |-> [core |-> "7", lead |-> 0, trail |-> 0, str |-> FALSE]]],
   [kind |-> "object", fields |-> <<>>]}

ProbeCategoryValues ==
  {[kind |-> "null"]}
    \cup {[kind |-> "string", value |-> s] : s \in ProbeCategoryStrings}
    \cup ProbeCategoryObjects

SeqsUpTo(S, n) == UNION {[1..k -> S] : k \in 0..n}

\* the values arrays are built from
ProbeArrayValues ==
  {[kind |-> "null"],
   [kind |-> "string", value |-> Str("A", 0, 0)],
   [kind |-> "string", value |-> Str("A", 0, 1)],
   [kind |-> "string", value |-> Str("B", 0, 0)],
   [kind |-> "string", value |-> Str("W21", 0, 0)],
   [kind |-> "object", fields |-> [k \in {"title"} |-> Str("B", 1, 0)]]}

ProbeCategories ==
  {[kind |-> "undefined"]}
    \cup ProbeCategoryValues
    \cup {[kind |-> "array", items |-> items] : items \in SeqsUpTo(ProbeArrayValues, MaxCats)}

ProbeSegments ==
  {Str("", 0, 0), Str("A", 1, 0), Str("B", 1, 1), Str("W21", 0, 0)}

ProbeTags ==
  {[kind |-> "undefined"], [kind |-> "other"]}
    \cup {[kind |-> "string", segs |-> segs] :
            segs \in SeqsUpTo(ProbeSegments, MaxSegs) \ {<<>>}}

ProbeMaxTags == {1, 2, defaultMaxTags}

InitTags ==
  \E c \in ProbeCategories, t \in ProbeTags, m \in ProbeMaxTags :
    InitProbe([called |-> FALSE, op |-> "tags", categories |-> c, tags |-> t,
               maxTags |-> m])

\* const qiitaTags = processTags(categories, tags, maxTags)
CallProcessTags ==
  /\ pc = "probe"
  /\ ~probe.called
  /\ probe.op = "tags"
  /\ probe' = [called |-> TRUE, op |-> "tags", categories |-> probe.categories,
               tags |-> probe.tags, maxTags |-> probe.maxTags,
               result |-> processTags(probe.categories, probe.tags, probe.maxTags)]
  /\ UNCHANGED <<env, cms, file, pc, articles, history, idx, syncCount,
                 errorCount, syncDecision, exitCode, runNo, nextRemote,
                 faultsLeft, editsLeft, obs, pending>>

SpecTags == InitTags /\ [][CallProcessTags]_vars

\* ---------------------------------------------------------------------------
\* HtmlToMarkdownConverter.convert and the payload of createQiitaArticle /
\* updateQiitaArticle
\*
\* A field of a CMS entry is missing, a value that is not a string, or a string
\* of markup.  What the Turndown engine makes of a string is a property of the
\* string: Markdown text, the empty string, or an exception.
MarkupTexts == {"", " ", "<p>a</p>", "<p>b</p>", "<p></p>", "<bad>"}

Markup(text) == [kind |-> "string", text |-> text]

Thrown == [kind |-> "throw"]

\* this.turndownService.turndown(input)
turndown(input) ==
  IF input.kind # "string" THEN Thrown
  ELSE CASE input.text \in {"<p>a</p>", "<p>b</p>"} -> [kind |-> "md", of |-> input.text]
         [] input.text = "<bad>" -> Thrown
         [] OTHER -> [kind |-> "md", of |-> ""]

\* !html, !options.excerpt
MarkupTruthy(v) ==
  CASE v.kind = "undefined" -> FALSE
    [] v.kind = "string" -> v.text # ""
    [] OTHER -> TRUE

\* options.excerpt.trim(): not a function unless the excerpt is a string
TrimmedTruthy(v) ==
  IF v.kind # "string" THEN Thrown
  ELSE [kind |-> "bool", value |-> v.text \notin {"", " "}]

\* the body of the try block of convert: the Markdown as its sections, or the
\* exception that left the block
convertTry(html, options) ==
  LET body == turndown(html)
  IN IF body.kind = "throw" THEN Thrown
     ELSE LET markdown == [kind |-> "markdown", excerpt |-> <<>>, body |-> body.of,
                           tidied |-> TRUE, footer |-> FALSE]
          IN IF ~MarkupTruthy(options.excerpt)
               THEN [markdown EXCEPT !.footer = TRUE]
             ELSE LET t == TrimmedTruthy(options.excerpt)
                  IN IF t.kind = "throw" THEN Thrown
                     ELSE IF ~t.value THEN [markdown EXCEPT !.footer = TRUE]
                     ELSE LET excerptMarkdown == turndown(options.excerpt)
                          IN IF excerptMarkdown.kind = "throw" THEN Thrown
                             ELSE IF excerptMarkdown.of = ""
                               THEN [markdown EXCEPT !.footer = TRUE]
                             ELSE [markdown EXCEPT !.excerpt = <<excerptMarkdown.of>>,
                                                   !.footer = TRUE]

convert_NoCatch(html, options) ==
  IF ~MarkupTruthy(html) \/ html.kind # "string" THEN Markup("")
  ELSE convertTry(html, options)

convert(html, options) ==
  IF ~MarkupTruthy(html) \/ html.kind # "string" THEN Markup("")
  ELSE LET markdown == convertTry(html, options)
       IN IF markdown.kind = "throw" THEN html ELSE markdown

\* createQiitaArticle / updateQiitaArticle up to their request: the payload,
\* or the exception raised while it was built
BuildPayload(article) ==
  LET tags == processTags(article.category, article.tags, defaultMaxTags)
      body == convert(article.content, [excerpt |-> article.excerpt])
  IN IF body.kind = "throw" THEN Thrown
     ELSE [kind |-> "payload", title |-> article.title, body |-> body, tags |-> tags,
           private |-> FALSE]

\* direct calls of createQiitaArticle / updateQiitaArticle from the loop of
\* syncArticles
ProbeMarkup ==
  {[kind |-> "undefined"], [kind |-> "number"]} \cup {Markup(t) : t \in MarkupTexts}

ProbeEntries ==
  [id : {1}, title : {1}, content : ProbeMarkup, excerpt : ProbeMarkup,
   category : {[kind |-> "undefined"], [kind |-> "string", value |-> Str("A", 0, 0)]},
   tags : {[kind |-> "undefined"]}]

InitPublish ==
  \E a \in ProbeEntries, action \in {"create", "update"}, ok \in BOOLEAN :
    InitProbe([called |-> FALSE, op |-> "publish", article |-> a, action |-> action,
               requestOk |-> ok])

\* try { result = await create/updateQiitaArticle(article) ... syncCount++ }
\* catch { errorCount++ }
CallPublish ==
  /\ pc = "probe"
  /\ ~probe.called
  /\ probe.op = "publish"
  /\ LET payload == BuildPayload(probe.article)
         requested == payload.kind = "payload"
     IN probe' = [called |-> TRUE, op |-> "publish", article |-> probe.article,
                  action |-> probe.action, requestOk |-> probe.requestOk,
                  body |-> convert(probe.article.content,
                                   [excerpt |-> probe.article.excerpt]),
                  requests |-> IF requested THEN <<payload>> ELSE <<>>,
                  syncCount |-> IF requested /\ probe.requestOk THEN 1 ELSE 0,
                  errorCount |-> IF requested /\ probe.requestOk THEN 0 ELSE 1]
  /\ UNCHANGED <<env, cms, file, pc, articles, history, idx, syncCount,
                 errorCount, syncDecision, exitCode, runNo, nextRemote,
                 faultsLeft, editsLeft, obs, pending>>

SpecPublish == InitPublish /\ [][CallPublish]_vars

\* ---------------------------------------------------------------------------
\* test-sync.js: TestSync.syncArticles, the interactive test tool.  It syncs one
\* article after the operator has confirmed on stdin.
MaxKeys == 2

TestArticle == articles[idx]

\* syncArticles of TestSync up to the registration of the stdin handler: the
\* articles are fetched, the store is loaded, the test article is chosen (the
\* one named on the command line, or the first) and the decision is taken.
\* Every early return leaves nothing pending and the process ends.
TestSelect ==
  /\ pc = "fetch"
  /\ articles' = publishedArticles(cms)
  /\ \E targetArticleId \in 0..MaxItems :
       LET found == IF targetArticleId = 0
                    THEN {i \in DOMAIN articles' : i = 1}
                    ELSE {i \in DOMAIN articles' : articles'[i].id = targetArticleId}
       IN IF Len(articles') = 0
          THEN /\ pc' = "exited"
               /\ exitCode' = 0
               /\ obs' = [obs EXCEPT !.kind = "completed"]
               /\ UNCHANGED <<history, idx, syncDecision>>
          ELSE /\ history' = loadSyncHistory(file)
               /\ IF found = {}
                  THEN /\ pc' = "exited"
                       /\ exitCode' = 0
                       /\ obs' = [obs EXCEPT !.loads = @ + 1, !.kind = "completed"]
                       /\ UNCHANGED <<idx, syncDecision>>
                  ELSE LET i == CHOOSE k \in found : \A j \in found : k <= j
                           d == shouldSyncArticle(articles'[i], history')
                       IN /\ idx' = i
                          /\ syncDecision' = d
                          /\ IF d.shouldSync
                             THEN /\ pc' = "confirm"
                                  /\ exitCode' = exitCode
                                  /\ obs' = [obs EXCEPT !.loads = @ + 1,
                                                        !.decisions = @ + 1]
                             ELSE /\ pc' = "exited"
                                  /\ exitCode' = 0
                                  /\ obs' = [obs EXCEPT !.loads = @ + 1,
                                                        !.decisions = @ + 1,
                                                        !.kind = "completed"]
  /\ UNCHANGED <<env, cms, file, syncCount, errorCount, runNo, nextRemote,
                 faultsLeft, editsLeft, probe, pending>>

\* a 'data' event with 'y' or 'Y': the handler runs createQiitaArticle or
\* updateQiitaArticle up to its request and awaits the response.  The handler
\* stays registered and stdin stays resumed, so the event can come again while
\* earlier invocations are still waiting.
KeyYes ==
  /\ pc = "confirm"
  /\ pending < MaxKeys
  /\ pending' = pending + 1
  /\ obs' = [obs EXCEPT !.requests = @ + 1,
                        !.pubLog = @ \cup {[run |-> runNo, id |-> TestArticle.id,
                                   ts |-> EffectiveTimestamp(TestArticle)]}]
  /\ UNCHANGED <<env, cms, file, pc, articles, history, idx, syncCount,
                 errorCount, syncDecision, exitCode, runNo, nextRemote,
                 faultsLeft, editsLeft, probe>>

\* a 'data' event with any other key: 'Sync cancelled', process.exit(0), also
\* when an earlier invocation of the handler is still waiting for its response
KeyOther ==
  /\ pc = "confirm"
  /\ pc' = "exited"
  /\ exitCode' = 0
  /\ obs' = [obs EXCEPT !.kind = "completed"]
  /\ UNCHANGED <<env, cms, file, articles, history, idx, syncCount, errorCount,
                 syncDecision, runNo, nextRemote, faultsLeft, editsLeft, probe,
                 pending>>

\* the response to a pending request arrives: the record and lastSyncTime are
\* written to the store, saveSyncHistory, process.exit(0)
TestPublishOk(written) ==
  /\ pc = "confirm"
  /\ pending > 0
  /\ LET qiitaId == IF syncDecision.action = "create"
                    THEN nextRemote ELSE syncDecision.qiitaId
     IN /\ history' = [PutRecord(history, TestArticle.id,
                                 SyncRecord(TestArticle, qiitaId, runNo))
                         EXCEPT !.lastSyncTime = <<runNo>>]
        /\ nextRemote' = IF syncDecision.action = "create"
                         THEN nextRemote + 1 ELSE nextRemote
  /\ file' = saveSyncHistory(history', file, written)
  /\ pending' = pending - 1
  /\ syncCount' = syncCount + 1
  /\ pc' = "exited"
  /\ exitCode' = 0
  /\ obs' = [obs EXCEPT !.okRun = Extend(@, TestArticle.id,
                                         EffectiveTimestamp(TestArticle)),
                        !.saveCalls = @ + 1, !.kind = "completed",
                        !.written = written, !.unsaved = @ \/ ~written]
  /\ UNCHANGED <<env, cms, articles, idx, errorCount, syncDecision, runNo,
                 faultsLeft, editsLeft, probe>>

TestPublishSaved == TestPublishOk(TRUE)

TestPublishSaveFailed == TestPublishOk(FALSE)

\* a pending request fails: the handler's catch logs it, process.exit(0)
TestPublishFail ==
  /\ pc = "confirm"
  /\ pending > 0
  /\ faultsLeft > 0
  /\ faultsLeft' = faultsLeft - 1
  /\ pending' = pending - 1
  /\ errorCount' = errorCount + 1
  /\ pc' = "exited"
  /\ exitCode' = 0
  /\ obs' = [obs EXCEPT !.failedNow =
               Extend(@, TestArticle.id, [action |-> syncDecision.action,
                                          article |-> TestArticle]),
                        !.kind = "completed"]
  /\ UNCHANGED <<env, cms, file, articles, history, idx, syncCount,
                 syncDecision, runNo, nextRemote, editsLeft, probe>>

InitTest ==
  /\ faultsLeft = MaxFaults
  /\ \E n \in 0..MaxItems :
       \E pub \in [1..n -> {Undefined, "t1"}], upd \in [1..n -> {Undefined, "t2"}] :
         \E f \in ProbeFiles :
           InitRun([i \in 1..n |-> [CmsEntry(i, pub[i]) EXCEPT !.updatedAt = upd[i]]], f)

NextTest ==
  \/ Construct
  \/ GetArticlesFail
  \/ TestSelect
  \/ KeyYes
  \/ KeyOther
  \/ TestPublishSaved
  \/ TestPublishSaveFailed
  \/ TestPublishFail

SpecTest == InitTest /\ [][NextTest]_vars

TypeOK ==
  /\ pending \in 0..(MaxKeys + 1)
  /\ pc \in {"start", "fetch", "loop", "publishing", "sleeping", "exited",
            "probe", "confirm"}
  /\ exitCode \in {-1, 0, 1}
  /\ file.kind \in {"absent", "corrupt", "json"}

\* ------------------------------------------------------------------ claims
\* the first present value among updatedAt, revisedAt, publishedAt
FirstPresent(a) ==
  LET s == <<a.updatedAt, a.revisedAt, a.publishedAt>>
      P == {i \in 1..3 : s[i] \notin {Undefined, ""}}
  IN IF P = {} THEN Undefined ELSE s[CHOOSE i \in P : \A j \in P : i <= j]

\* a is a date strictly after the date b
StrictlyLater(a, b) ==
  /\ a \in ValidStamps
  /\ b \in ValidStamps
  /\ DateValue(b) < DateValue(a)

\* the record the file on disk holds for id, if any
Persisted(id) == file.kind = "json" /\ id \in DOMAIN file.data.articles

RunningPcs == {"loop", "publishing", "sleeping"}

\* C1: shouldSyncArticle returns 'create' for every item whose id has no
\* record in the store, whatever its timestamps, also when all are absent.
C1_CreateWithoutRecord ==
  (probe.called /\ probe.article.id \notin DOMAIN probe.history.articles)
    => probe.result = [shouldSync |-> TRUE, action |-> "create"]

C1_Witness ==
  /\ probe.called
  /\ probe.article.id \notin DOMAIN probe.history.articles
  /\ probe.history.articles # <<>>
  /\ probe.article.updatedAt = Undefined
  /\ probe.article.revisedAt = Undefined
  /\ probe.article.publishedAt = Undefined
  /\ probe.result.action = "create"

\* C2: for an item with a record, the result is 'update' with the stored
\* remote id exactly when the effective timestamp and the stored timestamp
\* are both present and the first is strictly later; otherwise it is 'skip'.
C2_UpdateIffStrictlyLater ==
  (probe.called /\ probe.article.id \in DOMAIN probe.history.articles)
    => LET rec == probe.history.articles[probe.article.id]
           eff == FirstPresent(probe.article)
           stored == Prop(rec, "microCMSUpdatedAt")
       IN IF StrictlyLater(eff, stored)
          THEN probe.result = [shouldSync |-> TRUE, action |-> "update",
                               qiitaId |-> rec.qiitaId]
          ELSE probe.result = [shouldSync |-> FALSE, action |-> "skip"]

C2_Witness ==
  /\ probe.called
  /\ probe.article.id \in DOMAIN probe.history.articles
  /\ probe.article.updatedAt = ""
  /\ probe.article.revisedAt = "t2"
  /\ probe.article.publishedAt = "t1"
  /\ Prop(probe.history.articles[probe.article.id], "microCMSUpdatedAt") = "t1z"
  /\ probe.result.action = "update"
  /\ probe.result.qiitaId = 7

\* C3: after a run that reached its end, the file on disk holds a record for
\* every item published with success in that run, and the record's
\* microCMSUpdatedAt is the item's effective timestamp.
C3_PersistedAfterRun ==
  (pc = "exited" /\ obs.kind = "completed")
    => \A id \in DOMAIN obs.okRun :
         /\ Persisted(id)
         /\ Prop(file.data.articles[id], "microCMSUpdatedAt") = obs.okRun[id]

\* C4: a failed publish increments the error counter and leaves the records of
\* the store as they were; the loop goes on to the next item, so a completed
\* run has decided every item of the batch; and in the next run an unchanged
\* item that failed receives the same decision again.
C4_FailureStep ==
  (DOMAIN obs'.failedNow # DOMAIN obs.failedNow /\ pc = "publishing")
    => /\ errorCount' = errorCount + 1
       /\ history' = history
       /\ file' = file
       /\ idx' = idx + 1
       /\ pc' = "loop"

C4_FailureState ==
  /\ (obs.kind = "completed" => obs.decisions = Len(Batch(articles)))
  /\ errorCount = Cardinality(DOMAIN obs.failedNow)
  /\ \A id \in DOMAIN obs.prevFailed \cap DOMAIN obs.decided :
       (\E i \in 1..Len(articles) : articles[i] = obs.prevFailed[id].article)
         => obs.decided[id] = obs.prevFailed[id].action

C4_FailureIsolated == [][C4_FailureStep]_vars /\ []C4_FailureState

C4_Witness ==
  /\ \E id \in DOMAIN obs.prevFailed \cap DOMAIN obs.decided :
       /\ obs.prevFailed[id].action = "update"
       /\ obs.decided[id] = "update"
       /\ \E i \in 1..Len(articles) : articles[i] = obs.prevFailed[id].article
  /\ Cardinality(DOMAIN obs.decided) = 2

\* C5: a run that ends on a fatal failure (content list not fetched, or
\* configuration missing) has issued no publish request, has not written the
\* file, and exits with a non-zero status.
C5_FatalRunDoesNothing ==
  obs.kind = "fatal"
    => /\ pc = "exited"
       /\ exitCode = 1
       /\ obs.requests = 0
       /\ obs.saveCalls = 0
       /\ file = obs.fileAtStart

C5_Witness ==
  /\ obs.kind = "fatal"
  /\ validateConfig(env) = {}
  /\ Len(publishedArticles(cms)) > 0
  /\ file.kind = "json"

\* C6: a completed run with per-item errors has persisted the records of the
\* items it published and exits non-zero; one without errors exits with zero.
C6_PartialRunPersists ==
  (pc = "exited" /\ obs.kind = "completed")
    => IF errorCount > 0
       THEN /\ exitCode = 1
            /\ \A id \in DOMAIN obs.okRun :
                 Persisted(id) /\ file.data.articles[id] = history.articles[id]
       ELSE exitCode = 0

\* C7 (as stated): no two publish requests, in different runs, for the same
\* item with the same effective timestamp (looked at while every save so far
\* has written the file, so that the runs do share the persisted store).
C7_AtMostOncePerChange ==
  ~obs.unsaved
    => \A p \in obs.pubLog : \A q \in obs.pubLog :
         (p.id = q.id /\ p.ts = q.ts) => p.run = q.run

\* C7 (amended): a publish request is in flight only for an item that has no
\* record in the persisted store, or whose persisted record carries a timestamp
\* strictly earlier than the item's effective timestamp.
C7_PublishOnlyIfNotPersisted ==
  pc = "publishing"
    => \/ ~Persisted(Current.id)
       \/ StrictlyLater(EffectiveTimestamp(Current),
                        Prop(file.data.articles[Current.id],
                             "microCMSUpdatedAt"))

C7_Witness ==
  /\ pc = "publishing"
  /\ runNo >= 2
  /\ syncDecision.action = "update"
  /\ Persisted(Current.id)
  /\ \E id \in DOMAIN obs.decided :
       /\ obs.decided[id] = "skip"
       /\ Persisted(id)
       /\ \E p \in obs.pubLog : p.id = id /\ p.run < runNo

\* C8 (as stated): while a run is in its loop, the in-memory store changes
\* only by the write of the record of the item just published.
C8_OnlyRecordWrites ==
  [][(pc \in RunningPcs /\ history' # history)
       => /\ pc = "publishing"
          /\ syncCount' = syncCount + 1
          /\ history'.lastSyncTime = history.lastSyncTime
          /\ DOMAIN history'.articles = DOMAIN history.articles \cup {Current.id}
          /\ \A k \in DOMAIN history.articles \ {Current.id} :
               history'.articles[k] = history.articles[k]]_vars

\* C8 (amended): the records of the in-memory store change only by the write
\* of the record of the item just published (no other record changes, none is
\* removed, a decision, a skip and a failure change nothing); the only other
\* change is lastSyncTime, set once when the loop is over, before the save.
C8_RecordsFrame ==
  [][(pc \in RunningPcs /\ history' # history)
       => \/ /\ pc = "publishing"
             /\ syncCount' = syncCount + 1
             /\ history'.lastSyncTime = history.lastSyncTime
             /\ DOMAIN history'.articles = DOMAIN history.articles \cup {Current.id}
             /\ \A k \in DOMAIN history.articles \ {Current.id} :
                  history'.articles[k] = history.articles[k]
          \/ /\ pc = "loop"
             /\ pc' = "exited"
             /\ idx > Len(Batch(articles))
             /\ history'.articles = history.articles]_vars

C8_Witness ==
  /\ pc \in RunningPcs
  /\ syncCount = 1
  /\ Cardinality(DOMAIN history.articles) = 2
  /\ \E id \in DOMAIN history.articles : history.articles[id].lastSyncedAt < runNo

\* C9 (as stated): a run of syncArticles that has ended has loaded the store
\* exactly once and saved it exactly once.
C9_LoadOnceSaveOnce ==
  (pc = "exited" /\ validateConfig(env) = {})
    => obs.loads = 1 /\ obs.saveCalls = 1

\* C9 (amended): a run whose content list was fetched loads the store exactly
\* once, before any decision, and calls saveSyncHistory exactly once, after the
\* last item of the batch; the file is not written while the loop runs; a run
\* whose fetch fails neither loads nor saves.
C9_LoadSaveOrder ==
  /\ obs.loads <= 1
  /\ obs.saveCalls <= 1
  /\ (obs.decisions > 0 => obs.loads = 1)
  /\ (pc \in RunningPcs
        => obs.loads = 1 /\ obs.saveCalls = 0 /\ file = obs.fileAtStart)
  /\ (obs.kind = "completed"
        => /\ obs.loads = 1
           /\ obs.saveCalls = 1
           /\ obs.decisions = Len(Batch(articles)))
  /\ (obs.kind = "fatal" => obs.loads = 0 /\ obs.saveCalls = 0)

C9_Witness ==
  /\ pc = "loop"
  /\ Cardinality(DOMAIN obs.okRun) = 2
  /\ obs.saveCalls = 0
  /\ runNo = 2
  /\ file.kind = "json"

\* C10: in one run at most maxArticles decisions are taken and at most as many
\* publish requests are issued, however long the fetched list is.
C10_AtMostMaxArticles ==
  /\ obs.decisions <= maxArticles
  /\ obs.requests <= obs.decisions
  /\ (pc \in RunningPcs => idx <= maxArticles + 1)

C10_Witness ==
  /\ obs.kind = "completed"
  /\ Len(articles) > maxArticles
  /\ obs.decisions = maxArticles
  /\ obs.requests = maxArticles

\* C11: a publish request is issued only from the loop, never while another
\* request is in flight or while the pause runs, and once a publish of the run
\* has succeeded only after the pause that follows it has completed.
C11_IssueStep ==
  obs'.requests > obs.requests
    => /\ pc = "loop"
       /\ obs'.requests = obs.requests + 1
       /\ (syncCount > 0 => obs.paused)

C11_InFlight ==
  /\ obs.requests - (syncCount + errorCount) = IF pc = "publishing" THEN 1 ELSE 0
  /\ (pc = "publishing" /\ syncCount > 0 => obs.paused)

C11_PauseBetweenPublishes == [][C11_IssueStep]_vars /\ []C11_InFlight

C11_Witness ==
  /\ pc = "publishing"
  /\ syncCount = 1
  /\ obs.paused
  /\ Cardinality(DOMAIN obs.okRun) = 1

StoredStampsPresent ==
  /\ \A id \in DOMAIN history.articles :
       Truthy(history.articles[id].microCMSUpdatedAt)
  /\ file.kind = "json"
       => \A id \in DOMAIN file.data.articles :
            Truthy(Prop(file.data.articles[id], "microCMSUpdatedAt"))

\* C16: an entry placed after the first maxArticles entries of the fetched
\* list is never the object of a publish request and never gets a record, in
\* memory or on disk, in any run over the same list.
C16_BeyondLimitNeverSynced ==
  \A i \in 1..Len(publishedArticles(cms)) :
    i > maxArticles
      => LET id == publishedArticles(cms)[i].id
         IN /\ id \notin DOMAIN history.articles
            /\ ~Persisted(id)
            /\ \A p \in obs.pubLog : p.id # id

C16_Witness ==
  /\ runNo >= 2
  /\ obs.kind = "completed"
  /\ Len(articles) > maxArticles
  /\ obs.decisions = maxArticles
  /\ obs.requests = 0
  /\ \A id \in DOMAIN obs.decided : obs.decided[id] = "skip"
  /\ file.kind = "json"
  /\ Cardinality(DOMAIN file.data.articles) = maxArticles

\* ---------------------------------------------------------------------------
\* the candidates of a processTags call as the caller sees them: the flattened
\* categories followed by the comma-split trimmed tags
Candidates == AllTags(probe.categories, probe.tags)

ResultNames == [i \in DOMAIN probe.result |-> probe.result[i].name]

\* first position in the candidates of a value carrying the name n, or 0
FirstIndexOf(n) ==
  LET hits == {i \in DOMAIN Candidates : Candidates[i].str /\ Trim(Candidates[i]) = n}
  IN IF hits = {} THEN 0 ELSE CHOOSE i \in hits : \A j \in hits : i <= j

Survivors == {i \in DOMAIN Candidates : ValidTag(Candidates[i])}

TagsCalled == pc = "probe" /\ probe.called /\ probe.op = "tags"

\* C13: the tags returned by processTags are free of duplicates and keep the
\* order of first occurrence among the flattened categories followed by the
\* comma-split, trimmed tags.
C13_UniqueInFirstOccurrenceOrder ==
  TagsCalled /\ Survivors # {}
    => /\ \A i, j \in DOMAIN ResultNames : i # j => ResultNames[i] # ResultNames[j]
       /\ \A i \in DOMAIN ResultNames : FirstIndexOf(ResultNames[i]) > 0
       /\ \A i, j \in DOMAIN ResultNames :
            i < j => FirstIndexOf(ResultNames[i]) < FirstIndexOf(ResultNames[j])

\* the same holds as long as no category value carries white space around its
\* text: the values are then compared as the names they become
TrimmedCandidatesUnique ==
  (\A i \in DOMAIN Candidates : Candidates[i].str => Candidates[i] = Trim(Candidates[i]))
    => C13_UniqueInFirstOccurrenceOrder

\* C14: processTags returns between one and maxTags tags, each name a string
\* of 1 to 20 characters after trimming, and exactly the single tag 'AI' when
\* no candidate survives the filter.
C14_BoundedNonEmptyDefault ==
  TagsCalled
    => /\ Len(probe.result) >= 1
       /\ Len(probe.result) <= probe.maxTags
       /\ \A i \in DOMAIN probe.result :
            /\ probe.result[i].name.str
            /\ Length(probe.result[i].name) >= 1
            /\ Length(probe.result[i].name) <= maxTagLength
            /\ probe.result[i].name = Trim(probe.result[i].name)
       /\ (Survivors = {} => probe.result = <<[name |-> DefaultTag]>>)

\* an over-long category is dropped, the remaining tags are cut to maxTags
C14_Witness ==
  /\ TagsCalled
  /\ \E i \in DOMAIN Candidates : Length(Trim(Candidates[i])) > maxTagLength
  /\ Cardinality(Survivors) > probe.maxTags
  /\ Len(probe.result) = probe.maxTags

\* nothing survives: categories [] and tags ''
C14_DefaultWitness ==
  /\ TagsCalled
  /\ probe.categories = [kind |-> "array", items |-> <<>>]
  /\ probe.tags = [kind |-> "string", segs |-> <<Str("", 0, 0)>>]
  /\ probe.result = <<[name |-> DefaultTag]>>

\* ---------------------------------------------------------------------------
PublishCalled == pc = "probe" /\ probe.called /\ probe.op = "publish"

\* the engine raises for the body, or for an excerpt that convert converts
TransductionRaises(article) ==
  /\ article.content.kind = "string"
  /\ article.content.text # ""
  /\ \/ turndown(article.content).kind = "throw"
     \/ /\ article.excerpt.kind = "string"
        /\ article.excerpt.text \notin {"", " "}
        /\ turndown(article.excerpt).kind = "throw"

\* C15: convert never hands an exception to its caller; when the engine raises
\* for the body or the excerpt it returns the raw markup as it was given (no
\* excerpt in front, no footer behind), and the request for the item is still
\* issued with that body: the item counts as an error only if the request fails.
C15_ConvertFallsBackToRaw ==
  PublishCalled
    => /\ probe.body.kind # "throw"
       /\ TransductionRaises(probe.article)
            => /\ probe.body = probe.article.content
               /\ Len(probe.requests) = 1
               /\ probe.requests[1].body = probe.article.content
               /\ (probe.errorCount = 1 <=> ~probe.requestOk)
               /\ (probe.syncCount = 1 <=> probe.requestOk)

\* the engine raises for the body and the request goes through
C15_Witness ==
  /\ PublishCalled
  /\ turndown(probe.article.content).kind = "throw"
  /\ probe.requestOk
  /\ probe.syncCount = 1
  /\ probe.requests[1].body = Markup("<bad>")

\* the body converts, the engine raises for the excerpt
C15_ExcerptWitness ==
  /\ PublishCalled
  /\ turndown(probe.article.content).kind = "md"
  /\ TransductionRaises(probe.article)
  /\ probe.body = probe.article.content
  /\ probe.errorCount = 0

\* ---------------------------------------------------------------------------
\* C17: in the interactive test tool, once the operator has confirmed with 'y'
\* exactly one publish request is issued for the test article, and unless that
\* request or the write of the file fails its record is on disk when the
\* process has exited, whatever keys arrive while the request is in flight.
C17_OnePublishThenSaved ==
  /\ obs.requests <= 1
  /\ (/\ pc = "exited"
      /\ obs.requests >= 1
      /\ obs.failedNow = <<>>
      /\ ~obs.unsaved)
       => /\ Persisted(TestArticle.id)
          /\ Prop(file.data.articles[TestArticle.id], "microCMSUpdatedAt")
               = EffectiveTimestamp(TestArticle)

\* with a save that wrote the file, the records of the run are on disk
SavedRunPersists ==
  (pc = "exited" /\ obs.kind = "completed" /\ obs.written)
    => \A id \in DOMAIN obs.okRun :
         /\ Persisted(id)
         /\ file.data.articles[id] = history.articles[id]
         /\ Prop(file.data.articles[id], "microCMSUpdatedAt") = obs.okRun[id]

====
